---- MODULE Spec2Model ----
(***************************************************************************)
(* Model of the AI-provider fallback chain of learning_hub:                *)
(*   src/engines/ai_engine.py  CircuitBreaker, AIEngine.generate and the    *)
(*   provider call routines _call_gemini / _call_deepseek / _call_grok.     *)
(*                                                                         *)
(* and of the application shell around it:                                 *)
(*   src/core/app_builder.py, src/CORE/app_builder.py  AppBuilder.build,   *)
(*   src/core/auth_block.py  AuthBlock.                                    *)
(*                                                                         *)
(* The specifications share the state:                                     *)
(*   Spec         an AIEngine whose circuit breaker is driven only by      *)
(*                sequential generate() calls, with the clock advancing    *)
(*                between and inside the calls;                            *)
(*   SpecBreaker  a CircuitBreaker driven directly by arbitrary sequences  *)
(*                of is_available / record_failure / record_success;       *)
(*   SpecConc     one breaker record shared by two concurrent callers;     *)
(*   SpecLive     Spec with provider calls that may hang, under fairness;  *)
(*   SpecSpaced   Spec with one provider's failures a cooldown apart;      *)
(*   SpecApp      the Streamlit runs of AppBuilder.build in one session.   *)
(*                                                                         *)
(* Time is counted in whole ticks.  The constructor parameter timeout      *)
(* (default 300 s) is scaled down to a few ticks; failure_threshold keeps  *)
(* its default.                                                            *)
(***************************************************************************)
EXTENDS Integers, Sequences, FiniteSets, TLC

\* ------------------------------------------------------------------ bounds
\* The last instant the clock reaches.
MaxTime == 3
\* How often one provider's call routine is invoked in one behaviour.
MaxInvoked == 4
\* The cooldown of the breaker, in ticks (constructor parameter, default 300 s).
timeout == 1
\* Cap of the failure counter when record_failure is called directly.
MaxFailures == 4

\* ------------------------------------------------------- program constants
\* CircuitBreaker.__init__(failure_threshold = 3)
failure_threshold == 3

\* AIProvider: the provider identities, and generate's fixed priority order.
AIProvider == {"gemini", "deepseek", "grok"}

\* Mutant of provider_order: the first two providers change places.
provider_order_swapped == <<"deepseek", "gemini", "grok">>

provider_order == <<"gemini", "deepseek", "grok">>

\* The identities passed to the breaker directly: two registered ones and one
\* without a health record.
Identities == {"gemini", "deepseek", "unknown"}

\* Python's None for last_failure; a timestamp t is held as {t}.
None == {}
Some(t) == {t}
Val(o) == CHOOSE t \in o : TRUE

\* Python truthiness of status.get("last_failure"): None and 0.0 are falsy.
Truthy(o) == o # None /\ o # Some(0)

\* dict.get(key, default)
DictGet(d, k, default) == IF k \in DOMAIN d THEN d[k] ELSE default

\* The {} that provider_status.get(provider, {}) returns for an unknown key.
EmptyDict == << >>

\* ------------------------------------------------------------ CircuitBreaker
\* provider_status after __init__: every AIProvider at (0, None).
InitStatus == [p \in AIProvider |-> [failures |-> 0, last_failure |-> None]]

\* Mutant of is_available: the threshold comparison is off by one (<=).
is_available_inclusive(ps, provider, t) ==
    LET status == DictGet(ps, provider, EmptyDict)
        last   == DictGet(status, "last_failure", None)
    IN  IF Truthy(last) /\ (t - Val(last)) > timeout
        THEN [ret |-> TRUE,
              status |-> [ps EXCEPT ![provider] =
                             [failures |-> 0, last_failure |-> None]]]
        ELSE [ret |-> DictGet(status, "failures", 0) <= failure_threshold,
              status |-> ps]

\* Mutant of is_available: after the timeout it answers True without resetting
\* the record.
is_available_no_reset(ps, provider, t) ==
    LET status == DictGet(ps, provider, EmptyDict)
        last   == DictGet(status, "last_failure", None)
    IN  IF Truthy(last) /\ (t - Val(last)) > timeout
        THEN [ret |-> TRUE, status |-> ps]
        ELSE [ret |-> DictGet(status, "failures", 0) < failure_threshold,
              status |-> ps]

\* Mutant of is_available: an identity without a record is taken to be at the
\* threshold, so the breaker fails closed for it.
is_available_fail_closed(ps, provider, t) ==
    LET status == DictGet(ps, provider, EmptyDict)
        last   == DictGet(status, "last_failure", None)
    IN  IF Truthy(last) /\ (t - Val(last)) > timeout
        THEN [ret |-> TRUE,
              status |-> [ps EXCEPT ![provider] =
                             [failures |-> 0, last_failure |-> None]]]
        ELSE [ret |-> DictGet(status, "failures", failure_threshold)
                          < failure_threshold,
              status |-> ps]

\* Mutant of is_available: the cooldown ends when the timeout is reached (>=).
is_available_early_reset(ps, provider, t) ==
    LET status == DictGet(ps, provider, EmptyDict)
        last   == DictGet(status, "last_failure", None)
    IN  IF Truthy(last) /\ (t - Val(last)) >= timeout
        THEN [ret |-> TRUE,
              status |-> [ps EXCEPT ![provider] =
                             [failures |-> 0, last_failure |-> None]]]
        ELSE [ret |-> DictGet(status, "failures", 0) < failure_threshold,
              status |-> ps]

\* Mutant of is_available: after the timeout the circuit is half open: the
\* counter restarts one below the threshold, so one more failure reopens it.
is_available_half_open(ps, provider, t) ==
    LET status == DictGet(ps, provider, EmptyDict)
        last   == DictGet(status, "last_failure", None)
    IN  IF Truthy(last) /\ (t - Val(last)) > timeout
        THEN [ret |-> TRUE,
              status |-> [ps EXCEPT ![provider] =
                             [failures |-> failure_threshold - 1,
                              last_failure |-> None]]]
        ELSE [ret |-> DictGet(status, "failures", 0) < failure_threshold,
              status |-> ps]

\* Mutant of is_available: a check that finds the circuit open counts as a new
\* failure time, so every check of an open circuit restarts the cooldown.
is_available_extends_cooldown(ps, provider, t) ==
    LET status == DictGet(ps, provider, EmptyDict)
        last   == DictGet(status, "last_failure", None)
    IN  IF Truthy(last) /\ (t - Val(last)) > timeout
        THEN [ret |-> TRUE,
              status |-> [ps EXCEPT ![provider] =
                             [failures |-> 0, last_failure |-> None]]]
        ELSE IF DictGet(status, "failures", 0) < failure_threshold
        THEN [ret |-> TRUE, status |-> ps]
        ELSE [ret |-> FALSE,
              status |-> IF provider \in DOMAIN ps
                         THEN [ps EXCEPT ![provider].last_failure = Some(t)]
                         ELSE ps]

\* is_available(provider) at instant t: the returned flag and the status after.
is_available(ps, provider, t) ==
    LET status == DictGet(ps, provider, EmptyDict)
        last   == DictGet(status, "last_failure", None)
    IN  IF Truthy(last) /\ (t - Val(last)) > timeout
        THEN [ret |-> TRUE,
              status |-> [ps EXCEPT ![provider] =
                             [failures |-> 0, last_failure |-> None]]]
        ELSE [ret |-> DictGet(status, "failures", 0) < failure_threshold,
              status |-> ps]

\* Mutant of record_failure: an identity without a record gets one (as with
\* dict.setdefault) and its failure is counted.
record_failure_adds_record(ps, provider, t) ==
    [q \in DOMAIN ps \cup {provider} |->
        IF q = provider
        THEN [failures |-> (IF q \in DOMAIN ps THEN ps[q].failures ELSE 0) + 1,
              last_failure |-> Some(t)]
        ELSE ps[q]]

\* Mutant of record_failure: the timestamp is set, the counter is not raised.
record_failure_no_count(ps, provider, t) ==
    IF provider \in DOMAIN ps
    THEN [ps EXCEPT ![provider] =
             [failures |-> ps[provider].failures, last_failure |-> Some(t)]]
    ELSE ps

\* record_failure(provider) at instant t.
record_failure(ps, provider, t) ==
    IF provider \in DOMAIN ps
    THEN [ps EXCEPT ![provider] =
             [failures |-> ps[provider].failures + 1, last_failure |-> Some(t)]]
    ELSE ps

\* Mutant of record_success: a success clears the record of every provider.
record_success_clears_all(ps, provider) ==
    IF provider \in DOMAIN ps
    THEN [q \in DOMAIN ps |-> [failures |-> 0, last_failure |-> None]]
    ELSE ps

\* Mutant of record_success: the counter is reset, the timestamp is kept.
record_success_keeps_time(ps, provider) ==
    IF provider \in DOMAIN ps
    THEN [ps EXCEPT ![provider] =
             [failures |-> 0, last_failure |-> ps[provider].last_failure]]
    ELSE ps

\* record_success(provider).
record_success(ps, provider) ==
    IF provider \in DOMAIN ps
    THEN [ps EXCEPT ![provider] = [failures |-> 0, last_failure |-> None]]
    ELSE ps

\* --------------------------------------------------- provider call routines
\* Text is a sequence of characters; " " is whitespace.
RECURSIVE lstrip(_)
lstrip(s) == IF s # << >> /\ Head(s) = " " THEN lstrip(Tail(s)) ELSE s

RECURSIVE rstrip(_)
rstrip(s) ==
    IF s # << >> /\ s[Len(s)] = " " THEN rstrip(SubSeq(s, 1, Len(s) - 1)) ELSE s

\* str.strip()
strip(s) == rstrip(lstrip(s))

\* The texts a backend may send.
RawTexts == {<< >>, <<" ">>, <<"a">>, <<" ", "b", " ">>}

\* What the remote API does: fails (network, quota, timeout), answers without
\* a text (None), or answers with a text.
APIResponses ==
    {[kind |-> "error", text |-> << >>], [kind |-> "none", text |-> << >>]}
    \cup {[kind |-> "text", text |-> s] : s \in RawTexts}

\* The two ways a call routine ends.
Raise == [raised |-> TRUE, content |-> << >>]
Return(s) == [raised |-> FALSE, content |-> s]

\* _call_gemini: raises on an API error and on a missing or empty text.
_call_gemini(r) ==
    IF r.kind = "error" THEN Raise
    ELSE IF r.kind = "text" /\ r.text # << >> THEN Return(strip(r.text))
    ELSE Raise

\* _call_deepseek: raises on an API error and when content is None
\* (None.strip()); any text, also an empty one, is stripped and returned.
_call_deepseek(r) ==
    IF r.kind = "error" THEN Raise
    ELSE IF r.kind = "none" THEN Raise
    ELSE Return(strip(r.text))

\* _call_grok: as _call_deepseek.
_call_grok(r) ==
    IF r.kind = "error" THEN Raise
    ELSE IF r.kind = "none" THEN Raise
    ELSE Return(strip(r.text))

\* The if / elif dispatch inside generate's try block.
call_provider(provider, r) ==
    IF provider = "gemini" THEN _call_gemini(r)
    ELSE IF provider = "deepseek" THEN _call_deepseek(r)
    ELSE _call_grok(r)

\* ---------------------------------------------------------------- AIResponse
AllFailedError == "all providers unavailable"

SuccessResponse(content, provider, latency) ==
    [success |-> TRUE, content |-> content, provider |-> provider,
     latency |-> latency, tokens |-> 0, error |-> ""]

FailureResponse ==
    [success |-> FALSE, content |-> << >>, provider |-> "none",
     latency |-> 0, tokens |-> 0, error |-> AllFailedError]

\* No generate() call has returned yet.
NoResponse ==
    [success |-> FALSE, content |-> << >>, provider |-> "",
     latency |-> 0, tokens |-> 0, error |-> ""]

\* str.upper() on the provider names.
upper(s) ==
    CASE s = "gemini"   -> "GEMINI"
      [] s = "deepseek" -> "DEEPSEEK"
      [] s = "grok"     -> "GROK"
      [] OTHER          -> s

\* The text generate passes to the progress callback for a provider.
StatusMessage(provider) == <<"Calling", upper(provider), "...">>

\* One call of the progress callback, made when the generate() call had
\* invoked calls call routines.
Progress(provider, calls) == [msg |-> StatusMessage(provider), calls |-> calls]

\* --------------------------------------------------------------------- state
VARIABLES
    providers,          \* AIEngine.providers: the registry's keys
    provider_status,    \* CircuitBreaker.provider_status
    now,                \* time.time()
    pc,                 \* where the current generate() call is
    idx,                \* position of the for loop in provider_order
    progress_callback,  \* generate's argument: "none", "ok" or "raises"
    start_time,         \* generate's local start_time
    content,            \* generate's local content
    result,             \* the AIResponse the call returned
    attempt,            \* history: what this generate() call did with each provider
    invoked,            \* history: how often each call routine was invoked
    track,              \* history, per provider: "clean" while each of its
                        \* invocations raised in a call that a later provider
                        \* answered and the timeout never reset its record,
                        \* "reset" once the timeout did, "void" otherwise
    consec,             \* history: record_failure calls since the provider's last
                        \* record_success or timeout reset
    last_op,            \* the last direct breaker operation and what it returned
    call_log,           \* history: the call routines this generate() call invoked,
                        \* in the order of their invocation
    cb_log,             \* history: the calls of the progress callback made by this
                        \* generate() call: the message, and how many call
                        \* routines the call had invoked by then
    cooled,             \* history: the is_available check of the attempt under way
                        \* found no failure time on record or one older than
                        \* the timeout
    recovered,          \* history: the providers whose open circuit the timeout
                        \* reset and that had no record_success since
    threads,            \* concurrent callers: each one's position in a breaker
                        \* operation and the value it holds
    components,         \* the application as assembled by the entry script: which
                        \* app_builder module builds it and whether with_auth ran
    session_state,      \* st.session_state of the browser session
    run,                \* the last script run: the widget input it handled, what
                        \* it rendered and how it ended
    submitted,          \* history: the credentials last submitted through the
                        \* login form of this session
    rf_calls            \* history: record_failure calls of the concurrent callers
                        \* that wrote the counter, -1 once a caller reset it

vars == <<providers, provider_status, now, pc, idx, progress_callback,
          start_time, content, result, attempt, invoked, track, consec, last_op,
          call_log, cb_log, cooled, recovered, threads, rf_calls, components,
          session_state, run, submitted>>

genvars == <<pc, idx, progress_callback, start_time, content, result, attempt,
             invoked, track, call_log, cb_log, cooled>>

concvars == <<threads, rf_calls>>

appvars == <<components, session_state, run, submitted>>

\* The widget input of a script run started by the first page load, by
\* st.rerun() or by a widget outside the builder's own.
NoInput == [kind |-> "rerun", username |-> "", password |-> "", feature |-> ""]

\* Nothing has been submitted through the login form.
NoCredentials == [username |-> "", password |-> ""]

\* No script has run in the session yet.
NoRun == [input |-> NoInput, rendered |-> {}, ended |-> "none"]

\* The application of src/app.py: built by core/app_builder.py, with_auth.
AppPy == [builder |-> "core", auth |-> TRUE, sidebar |-> TRUE]

\* The callers that share one breaker in the concurrent specification.
Threads == {1, 2}

\* A caller outside every breaker operation.
IdleThread == [pc |-> "idle", tmp |-> 0, out |-> "none"]

\* op(provider) returned ret; before is the provider's failure counter and
\* expired whether its cooldown had run out when the operation started.
Op(op, provider, ret, before, expired) ==
    [op |-> op, provider |-> provider, ret |-> ret, before |-> before,
     expired |-> expired]

NoOp == Op("none", "", FALSE, 0, FALSE)

Pending == [p \in AIProvider |-> "pending"]

Init ==
    /\ providers \in SUBSET AIProvider
    /\ provider_status = InitStatus
    /\ now = 1
    /\ pc = "idle"
    /\ idx = 1
    /\ progress_callback = "none"
    /\ start_time = 0
    /\ content = << >>
    /\ result = NoResponse
    /\ attempt = Pending
    /\ invoked = [p \in AIProvider |-> 0]
    /\ track = [p \in AIProvider |-> "clean"]
    /\ consec = [p \in AIProvider |-> 0]
    /\ last_op = NoOp
    /\ call_log = << >>
    /\ cb_log = << >>
    /\ cooled = FALSE
    /\ recovered = {}
    /\ threads = [t \in Threads |-> IdleThread]
    /\ rf_calls = 0
    /\ components = AppPy
    /\ session_state = EmptyDict
    /\ run = NoRun
    /\ submitted = NoCredentials

\* The clock advances: between the calls and while a call routine waits for its
\* backend.  The statements of the loop between two call routines take no tick.
Tick ==
    /\ pc # "loop"
    /\ now < MaxTime
    /\ now' = now + 1
    /\ UNCHANGED <<providers, provider_status, genvars, consec, last_op,
                   recovered, concvars, appvars>>

\* The instant t is more than timeout after the provider's last failure.
Expired(ps, p, t) ==
    /\ p \in DOMAIN ps
    /\ ps[p].last_failure # None
    /\ t - Val(ps[p].last_failure) > timeout

\* The provider's record holds no failure time, or one more than timeout
\* before the instant t.
Cooled(ps, p, t) == ps[p].last_failure = None \/ Expired(ps, p, t)

\* The provider's failure counter (0 for an identity without a record).
Failures(ps, p) == IF p \in DOMAIN ps THEN ps[p].failures ELSE 0

\* The call ends without a provider's answer: the providers that raised in it
\* did not raise "while a later provider succeeded".
VoidRaised(tr) ==
    [p \in AIProvider |-> IF attempt[p] = "raised" THEN "void" ELSE tr[p]]

\* ------------------------------------------------------------------ generate
\* generate() is entered: provider_order is built and the loop starts.
GenerateBegin(cb) ==
    /\ pc \in {"idle", "returned", "raised"}
    /\ \A p \in AIProvider : invoked[p] < MaxInvoked
    /\ progress_callback' = cb
    /\ idx' = 1
    /\ attempt' = Pending
    /\ start_time' = 0
    /\ content' = << >>
    /\ result' = NoResponse
    /\ pc' = "loop"
    /\ call_log' = << >>
    /\ cb_log' = << >>
    /\ cooled' = FALSE
    /\ UNCHANGED <<providers, provider_status, now, invoked, track, consec,
                   last_op, recovered, concvars, appvars>>

\* Mutant of SkipNotConfigured: a provider that is not configured is counted
\* as a failure against the breaker.
SkipNotConfigured_counts ==
    /\ pc = "loop"
    /\ idx <= Len(provider_order)
    /\ provider_order[idx] \notin providers
    /\ provider_status' = record_failure(provider_status, provider_order[idx], now)
    /\ attempt' = [attempt EXCEPT ![provider_order[idx]] = "absent"]
    /\ idx' = idx + 1
    /\ UNCHANGED <<providers, now, pc, progress_callback, start_time, content,
                   result, invoked, track, consec, last_op, call_log, cb_log, cooled,
                   recovered, concvars, appvars>>

\* Loop head for a provider that is not in self.providers: continue.
SkipNotConfigured ==
    /\ pc = "loop"
    /\ idx <= Len(provider_order)
    /\ provider_order[idx] \notin providers
    /\ attempt' = [attempt EXCEPT ![provider_order[idx]] = "absent"]
    /\ idx' = idx + 1
    /\ UNCHANGED <<providers, provider_status, now, pc, progress_callback,
                   start_time, content, result, invoked, track, consec, last_op,
                   call_log, cb_log, cooled, recovered, concvars, appvars>>

\* Mutant of CheckProvider: the progress callback is called at the loop head,
\* before the is_available check, so also for a provider that is then skipped.
CheckProvider_callback_first ==
    /\ pc = "loop"
    /\ idx <= Len(provider_order)
    /\ provider_order[idx] \in providers
    /\ LET provider == provider_order[idx]
           chk == is_available(provider_status, provider, now)
           tr  == IF Expired(provider_status, provider, now)
                     /\ track[provider] = "clean"
                  THEN [track EXCEPT ![provider] = "reset"]
                  ELSE track
           log == IF progress_callback = "none" THEN cb_log
                  ELSE Append(cb_log, Progress(provider, Len(call_log)))
       IN  IF progress_callback = "raises"
           THEN /\ attempt' = [attempt EXCEPT ![provider] = "callback_raised"]
                /\ pc' = "raised"
                /\ idx' = 1
                /\ progress_callback' = "none"
                /\ track' = VoidRaised(track)
                /\ cb_log' = log
                /\ UNCHANGED <<provider_status, start_time, invoked, call_log,
                               cooled>>
           ELSE /\ provider_status' = chk.status
                /\ cb_log' = log
                /\ track' = tr
                /\ IF ~chk.ret
                   THEN /\ attempt' = [attempt EXCEPT ![provider] = "open"]
                        /\ idx' = idx + 1
                        /\ UNCHANGED <<pc, start_time, invoked,
                                       progress_callback, call_log, cooled>>
                   ELSE /\ attempt' = [attempt EXCEPT ![provider] = "calling"]
                        /\ start_time' = now
                        /\ invoked' = [invoked EXCEPT ![provider] = @ + 1]
                        /\ call_log' = Append(call_log, provider)
                        /\ cooled' = Cooled(provider_status, provider, now)
                        /\ pc' = "calling"
                        /\ UNCHANGED <<idx, progress_callback>>
    /\ UNCHANGED <<providers, now, content, result, consec, last_op, recovered,
                   concvars, appvars>>

\* Loop head for a registered provider: the is_available check, then the
\* progress callback and start_time, up to the entry of the call routine.
\* An exception of the callback leaves generate.
CheckProvider ==
    /\ pc = "loop"
    /\ idx <= Len(provider_order)
    /\ provider_order[idx] \in providers
    /\ LET provider == provider_order[idx]
           chk == is_available(provider_status, provider, now)
           tr  == IF Expired(provider_status, provider, now)
                     /\ track[provider] = "clean"
                  THEN [track EXCEPT ![provider] = "reset"]
                  ELSE track
       IN  /\ provider_status' = chk.status
           /\ IF ~chk.ret
              THEN /\ attempt' = [attempt EXCEPT ![provider] = "open"]
                   /\ idx' = idx + 1
                   /\ track' = tr
                   /\ UNCHANGED <<pc, start_time, invoked, progress_callback,
                                  call_log, cb_log, cooled>>
              ELSE IF progress_callback = "raises"
              THEN /\ attempt' = [attempt EXCEPT ![provider] = "callback_raised"]
                   /\ pc' = "raised"
                   /\ idx' = 1
                   /\ progress_callback' = "none"
                   /\ track' = VoidRaised(tr)
                   /\ cb_log' = Append(cb_log, Progress(provider, Len(call_log)))
                   /\ UNCHANGED <<start_time, invoked, call_log, cooled>>
              ELSE /\ attempt' = [attempt EXCEPT ![provider] = "calling"]
                   /\ track' = tr
                   /\ start_time' = now
                   /\ invoked' = [invoked EXCEPT ![provider] = @ + 1]
                   /\ call_log' = Append(call_log, provider)
                   /\ cooled' = Cooled(provider_status, provider, now)
                   /\ cb_log' = IF progress_callback = "none" THEN cb_log
                                 ELSE Append(cb_log,
                                             Progress(provider, Len(call_log)))
                   /\ pc' = "calling"
                   /\ UNCHANGED <<idx, progress_callback>>
    /\ UNCHANGED <<providers, now, content, result, consec, last_op, recovered,
                   concvars, appvars>>

\* Mutant of ProviderReturn: the except clause re-raises, so a provider's
\* exception leaves generate.
ProviderReturn_propagates(r) ==
    /\ pc = "calling"
    /\ LET provider == provider_order[idx]
           out == call_provider(provider, r)
       IN  IF out.raised
           THEN /\ provider_status' = record_failure(provider_status, provider, now)
                /\ attempt' = [attempt EXCEPT ![provider] = "raised"]
                /\ pc' = "raised"
                /\ idx' = 1
                /\ start_time' = 0
                /\ progress_callback' = "none"
                /\ UNCHANGED <<content, result, track>>
           ELSE IF out.content # << >>
           THEN /\ provider_status' = record_success(provider_status, provider)
                /\ attempt' = [attempt EXCEPT ![provider] = "text"]
                /\ content' = out.content
                /\ result' = SuccessResponse(out.content, provider, now - start_time)
                /\ track' = [track EXCEPT ![provider] = "void"]
                /\ pc' = "returned"
                /\ idx' = 1
                /\ start_time' = 0
                /\ progress_callback' = "none"
           ELSE /\ attempt' = [attempt EXCEPT ![provider] = "empty"]
                /\ content' = out.content
                /\ track' = [track EXCEPT ![provider] = "void"]
                /\ idx' = idx + 1
                /\ pc' = "loop"
                /\ UNCHANGED <<provider_status, result, start_time,
                               progress_callback>>
    /\ cooled' = FALSE
    /\ UNCHANGED <<providers, now, invoked, consec, last_op, call_log, cb_log,
                   recovered, concvars, appvars>>

\* Mutant of ProviderReturn: the return after a success is missing, so the loop
\* goes on to the next provider.
ProviderReturn_continues(r) ==
    /\ pc = "calling"
    /\ LET provider == provider_order[idx]
           out == call_provider(provider, r)
       IN  IF out.raised
           THEN /\ provider_status' = record_failure(provider_status, provider, now)
                /\ attempt' = [attempt EXCEPT ![provider] = "raised"]
                /\ idx' = idx + 1
                /\ pc' = "loop"
                /\ UNCHANGED <<content, result, start_time, progress_callback,
                               track>>
           ELSE IF out.content # << >>
           THEN /\ provider_status' = record_success(provider_status, provider)
                /\ attempt' = [attempt EXCEPT ![provider] = "text"]
                /\ content' = out.content
                /\ result' = SuccessResponse(out.content, provider, now - start_time)
                /\ track' = [track EXCEPT ![provider] = "void"]
                /\ idx' = idx + 1
                /\ pc' = "loop"
                /\ UNCHANGED <<start_time, progress_callback>>
           ELSE /\ attempt' = [attempt EXCEPT ![provider] = "empty"]
                /\ content' = out.content
                /\ track' = [track EXCEPT ![provider] = "void"]
                /\ idx' = idx + 1
                /\ pc' = "loop"
                /\ UNCHANGED <<provider_status, result, start_time,
                               progress_callback>>
    /\ cooled' = FALSE
    /\ UNCHANGED <<providers, now, invoked, consec, last_op, call_log, cb_log,
                   recovered, concvars, appvars>>

\* The call routine ends with API response r: a non-empty content is a success
\* and returns; an exception is recorded and the loop continues; an empty
\* content falls out of the try block and the loop continues.
ProviderReturn(r) ==
    /\ pc = "calling"
    /\ LET provider == provider_order[idx]
           out == call_provider(provider, r)
       IN  IF out.raised
           THEN /\ provider_status' = record_failure(provider_status, provider, now)
                /\ attempt' = [attempt EXCEPT ![provider] = "raised"]
                /\ idx' = idx + 1
                /\ pc' = "loop"
                /\ UNCHANGED <<content, result, start_time, progress_callback,
                               track>>
           ELSE IF out.content # << >>
           THEN /\ provider_status' = record_success(provider_status, provider)
                /\ attempt' = [attempt EXCEPT ![provider] = "text"]
                /\ content' = out.content
                /\ result' = SuccessResponse(out.content, provider, now - start_time)
                /\ track' = [track EXCEPT ![provider] = "void"]
                /\ pc' = "returned"
                /\ idx' = 1
                /\ start_time' = 0
                /\ progress_callback' = "none"
           ELSE /\ attempt' = [attempt EXCEPT ![provider] = "empty"]
                /\ content' = out.content
                /\ track' = [track EXCEPT ![provider] = "void"]
                /\ idx' = idx + 1
                /\ pc' = "loop"
                /\ UNCHANGED <<provider_status, result, start_time,
                               progress_callback>>
    /\ cooled' = FALSE
    /\ UNCHANGED <<providers, now, invoked, consec, last_op, call_log, cb_log,
                   recovered, concvars, appvars>>

\* Mutant of AllFailed: total failure is raised as an exception.
AllFailed_raises ==
    /\ pc = "loop"
    /\ idx > Len(provider_order)
    /\ pc' = "raised"
    /\ idx' = 1
    /\ start_time' = 0
    /\ progress_callback' = "none"
    /\ track' = VoidRaised(track)
    /\ UNCHANGED <<providers, provider_status, now, content, result, attempt,
                   invoked, consec, last_op, call_log, cb_log, cooled, recovered, concvars, appvars>>

\* The loop is exhausted: the failure response is returned.
AllFailed ==
    /\ pc = "loop"
    /\ idx > Len(provider_order)
    /\ result' = FailureResponse
    /\ pc' = "returned"
    /\ idx' = 1
    /\ start_time' = 0
    /\ progress_callback' = "none"
    /\ track' = VoidRaised(track)
    /\ UNCHANGED <<providers, provider_status, now, content, attempt, invoked,
                   consec, last_op, call_log, cb_log, cooled, recovered, concvars, appvars>>

Next ==
    \/ Tick
    \/ \E cb \in {"none", "ok", "raises"} : GenerateBegin(cb)
    \/ SkipNotConfigured
    \/ CheckProvider
    \/ \E r \in APIResponses : ProviderReturn(r)
    \/ AllFailed

Spec == Init /\ [][Next]_vars

\* ------------------------------------------------- the breaker, used directly
OpIsAvailable(p) ==
    /\ LET chk == is_available(provider_status, p, now)
       IN  /\ provider_status' = chk.status
           /\ last_op' = Op("is_available", p, chk.ret,
                            Failures(provider_status, p),
                            Expired(provider_status, p, now))
    /\ consec' = IF Expired(provider_status, p, now)
                 THEN [consec EXCEPT ![p] = 0] ELSE consec
    /\ recovered' = IF /\ Expired(provider_status, p, now)
                       /\ provider_status[p].failures >= failure_threshold
                    THEN recovered \cup {p} ELSE recovered
    /\ UNCHANGED <<providers, now, genvars, concvars, appvars>>

OpRecordFailure(p) ==
    /\ p \in AIProvider => provider_status[p].failures < MaxFailures
    /\ provider_status' = record_failure(provider_status, p, now)
    /\ last_op' = Op("record_failure", p, FALSE, Failures(provider_status, p),
                     Expired(provider_status, p, now))
    /\ consec' = IF p \in AIProvider
                 THEN [consec EXCEPT ![p] = @ + 1] ELSE consec
    /\ UNCHANGED <<providers, now, genvars, recovered, concvars, appvars>>

OpRecordSuccess(p) ==
    /\ provider_status' = record_success(provider_status, p)
    /\ last_op' = Op("record_success", p, FALSE, Failures(provider_status, p),
                     Expired(provider_status, p, now))
    /\ consec' = IF p \in AIProvider
                 THEN [consec EXCEPT ![p] = 0] ELSE consec
    /\ recovered' = recovered \ {p}
    /\ UNCHANGED <<providers, now, genvars, concvars, appvars>>

NextBreaker ==
    \/ Tick
    \/ \E p \in Identities : OpIsAvailable(p)
    \/ \E p \in Identities : OpRecordFailure(p)
    \/ \E p \in Identities : OpRecordSuccess(p)

SpecBreaker == Init /\ [][NextBreaker]_vars

\* ------------------------------------------- one breaker, concurrent callers
\* Each caller runs generate() on an engine whose registry holds the first
\* provider of the order only, so its breaker traffic is is_available and then
\* record_failure or record_success on that provider.  The methods take no
\* lock: a step is one read or one write of a field of the shared record.
ConcProvider == provider_order[1]

seqvars == <<providers, pc, idx, progress_callback, start_time, content, result,
             attempt, invoked, track, call_log, cb_log, cooled, consec,
             last_op, recovered, appvars>>

InitConc == Init /\ providers = {ConcProvider}

\* The caller's call has ended with outcome out.
EndCall(t, out) == [threads EXCEPT ![t] = [pc |-> "idle", tmp |-> 0, out |-> out]]

\* The caller moves on to position to, holding the value tmp.
Goto(t, to, tmp) == [threads EXCEPT ![t].pc = to, ![t].tmp = tmp]

\* generate() is entered and reaches the loop head of the provider.
T_Begin(t) ==
    /\ threads[t].pc = "idle"
    /\ threads' = [threads EXCEPT ![t] = [pc |-> "ia_get", tmp |-> 0, out |-> "none"]]
    /\ UNCHANGED <<provider_status, now, rf_calls, seqvars>>

\* is_available: if status.get("last_failure")
T_IaGet(t) ==
    /\ threads[t].pc = "ia_get"
    /\ threads' = IF Truthy(provider_status[ConcProvider].last_failure)
                  THEN Goto(t, "ia_elapsed", 0)
                  ELSE Goto(t, "ia_cmp", 0)
    /\ UNCHANGED <<provider_status, now, rf_calls, seqvars>>

\* is_available: elapsed = time.time() - status["last_failure"], a second read
\* of the field (a None read here raises TypeError, which leaves generate),
\* and the comparison with the timeout.
T_IaElapsed(t) ==
    /\ threads[t].pc = "ia_elapsed"
    /\ LET last == provider_status[ConcProvider].last_failure
       IN  threads' = IF last = None
                      THEN EndCall(t, "type_error")
                      ELSE IF now - Val(last) > timeout
                      THEN Goto(t, "ia_reset_failures", 0)
                      ELSE Goto(t, "ia_cmp", 0)
    /\ UNCHANGED <<provider_status, now, rf_calls, seqvars>>

\* is_available: status["failures"] = 0
T_IaResetFailures(t) ==
    /\ threads[t].pc = "ia_reset_failures"
    /\ provider_status' = [provider_status EXCEPT ![ConcProvider].failures = 0]
    /\ rf_calls' = -1
    /\ threads' = Goto(t, "ia_reset_last", 0)
    /\ UNCHANGED <<now, seqvars>>

\* is_available: status["last_failure"] = None; return True
T_IaResetLast(t) ==
    /\ threads[t].pc = "ia_reset_last"
    /\ provider_status' = [provider_status EXCEPT ![ConcProvider].last_failure = None]
    /\ threads' = Goto(t, "call", 0)
    /\ UNCHANGED <<now, rf_calls, seqvars>>

\* is_available: return status.get("failures", 0) < self.failure_threshold;
\* on False generate skips the provider and returns the failure response.
T_IaCmp(t) ==
    /\ threads[t].pc = "ia_cmp"
    /\ threads' = IF provider_status[ConcProvider].failures < failure_threshold
                  THEN Goto(t, "call", 0)
                  ELSE EndCall(t, "skipped")
    /\ UNCHANGED <<provider_status, now, rf_calls, seqvars>>

\* The call routine ends with API response r.
T_Call(t, r) ==
    /\ threads[t].pc = "call"
    /\ LET out == call_provider(ConcProvider, r)
       IN  IF out.raised
           THEN /\ provider_status[ConcProvider].failures < MaxFailures
                /\ rf_calls < MaxFailures
                /\ threads' = Goto(t, "rf_load", 0)
           ELSE IF out.content # << >>
           THEN threads' = Goto(t, "rs_failures", 0)
           ELSE threads' = EndCall(t, "empty")
    /\ UNCHANGED <<provider_status, now, rf_calls, seqvars>>

\* record_failure: the read of status["failures"] in  failures += 1
T_RfLoad(t) ==
    /\ threads[t].pc = "rf_load"
    /\ threads' = Goto(t, "rf_store", provider_status[ConcProvider].failures)
    /\ UNCHANGED <<provider_status, now, rf_calls, seqvars>>

\* record_failure: the write of status["failures"] in  failures += 1
T_RfStore(t) ==
    /\ threads[t].pc = "rf_store"
    /\ provider_status' =
           [provider_status EXCEPT ![ConcProvider].failures = threads[t].tmp + 1]
    /\ rf_calls' = IF rf_calls >= 0 THEN rf_calls + 1 ELSE rf_calls
    /\ threads' = Goto(t, "rf_time", 0)
    /\ UNCHANGED <<now, seqvars>>

\* record_failure: status["last_failure"] = time.time(); generate goes on and
\* returns the failure response.
T_RfTime(t) ==
    /\ threads[t].pc = "rf_time"
    /\ provider_status' =
           [provider_status EXCEPT ![ConcProvider].last_failure = Some(now)]
    /\ threads' = EndCall(t, "raised")
    /\ UNCHANGED <<now, rf_calls, seqvars>>

\* record_success: status["failures"] = 0
T_RsFailures(t) ==
    /\ threads[t].pc = "rs_failures"
    /\ provider_status' = [provider_status EXCEPT ![ConcProvider].failures = 0]
    /\ rf_calls' = -1
    /\ threads' = Goto(t, "rs_last", 0)
    /\ UNCHANGED <<now, seqvars>>

\* record_success: status["last_failure"] = None; generate returns the success.
T_RsLast(t) ==
    /\ threads[t].pc = "rs_last"
    /\ provider_status' = [provider_status EXCEPT ![ConcProvider].last_failure = None]
    /\ threads' = EndCall(t, "text")
    /\ UNCHANGED <<now, rf_calls, seqvars>>

NextConc ==
    \/ Tick
    \/ \E t \in Threads : T_Begin(t)
    \/ \E t \in Threads : T_IaGet(t)
    \/ \E t \in Threads : T_IaElapsed(t)
    \/ \E t \in Threads : T_IaResetFailures(t)
    \/ \E t \in Threads : T_IaResetLast(t)
    \/ \E t \in Threads : T_IaCmp(t)
    \/ \E t \in Threads, r \in APIResponses : T_Call(t, r)
    \/ \E t \in Threads : T_RfLoad(t)
    \/ \E t \in Threads : T_RfStore(t)
    \/ \E t \in Threads : T_RfTime(t)
    \/ \E t \in Threads : T_RsFailures(t)
    \/ \E t \in Threads : T_RsLast(t)

SpecConc == InitConc /\ [][NextConc]_vars

\* ------------------------------------------------ network calls that hang
\* The providers whose client was constructed with a request timeout: the two
\* OpenAI clients (timeout=30).  _call_gemini passes no timeout or deadline to
\* generate_content.
WithDeadline == {"deepseek", "grok"}

\* The backend of the provider being called stops answering.
ProviderHangs ==
    /\ pc = "calling"
    /\ pc' = "hung"
    /\ UNCHANGED <<providers, provider_status, now, idx, progress_callback,
                   start_time, content, result, attempt, invoked, track, consec,
                   last_op, call_log, cb_log, cooled, recovered, concvars, appvars>>

\* The client's request timeout ends a hung call by an exception, which
\* generate's except clause records as a failure before it goes on.
ClientTimeout ==
    /\ pc = "hung"
    /\ provider_order[idx] \in WithDeadline
    /\ provider_status' = record_failure(provider_status, provider_order[idx], now)
    /\ attempt' = [attempt EXCEPT ![provider_order[idx]] = "raised"]
    /\ idx' = idx + 1
    /\ pc' = "loop"
    /\ cooled' = FALSE
    /\ UNCHANGED <<providers, now, progress_callback, start_time, content, result,
                   invoked, track, consec, last_op, call_log, cb_log, recovered,
                   concvars, appvars>>

NextLive ==
    \/ Next
    \/ ProviderHangs
    \/ ClientTimeout

\* The statements of generate are executed, a backend that answers does so in
\* the end, and a client timeout fires; nothing ends a hung call otherwise.
SpecLive ==
    /\ Init /\ [][NextLive]_vars
    /\ WF_vars(SkipNotConfigured)
    /\ WF_vars(CheckProvider)
    /\ WF_vars(AllFailed)
    /\ WF_vars(\E r \in APIResponses : ProviderReturn(r))
    /\ WF_vars(ClientTimeout)

\* ------------------------------------ one provider's failures spaced apart
\* The provider whose failed attempts are spaced further apart than the
\* cooldown.
SpacedProvider == "deepseek"

\* ProviderReturn, except that an attempt of SpacedProvider fails only when its
\* is_available check was made with no failure time on record or more than
\* timeout after the one on record.
ProviderReturnSpaced(r) ==
    /\ pc = "calling"
    /\ (/\ provider_order[idx] = SpacedProvider
        /\ call_provider(provider_order[idx], r).raised) => cooled
    /\ ProviderReturn(r)

NextSpaced ==
    \/ Tick
    \/ \E cb \in {"none", "ok", "raises"} : GenerateBegin(cb)
    \/ SkipNotConfigured
    \/ CheckProvider
    \/ \E r \in APIResponses : ProviderReturnSpaced(r)
    \/ AllFailed

\* The generate calls in which SpacedProvider's failures are spaced apart.
SpecSpaced == Init /\ [][NextSpaced]_vars

\* ------------------------------------------------------ the application shell
\* Streamlit runs the entry script once per page load, widget event or
\* st.rerun(); st.session_state is what survives from one run to the next.
\* A run of AppBuilder.build is one step.  Two builders are in the tree:
\* core/app_builder.py, which src/app.py imports, and CORE/app_builder.py.

Builders == {"core", "CORE"}

Components == [builder : Builders, auth : BOOLEAN, sidebar : BOOLEAN]

\* hashlib.sha256(password.encode()).hexdigest(): distinct passwords have
\* distinct digests, and a digest is not the password.
sha256(password) == <<"sha256", password>>

\* st.secrets["auth"]["users"]: username -> digest of the password.
users == ("alice" :> sha256("secret")) @@ ("bob" :> sha256("hunter2"))

Usernames == {"alice", "bob", "eve"}

Passwords == {"secret", "hunter2", "guess"}

\* The features registered by the entry script, in order.
feature_names == <<"weaver", "cfo">>

default_feature == "weaver"

\* selected_feature absent from the session state.
NoFeature == ""

DictSet(d, k, v) == [x \in DOMAIN d \cup {k} |-> IF x = k THEN v ELSE d[x]]

check_login_default_true(ss) == DictGet(ss, "authenticated", TRUE)

check_login(ss) == DictGet(ss, "authenticated", FALSE)

_verify_credentials(username, password) ==
    IF username \in DOMAIN users
    THEN sha256(password) = users[username]
    ELSE FALSE

\* The part of a script run carried out by one routine: the session state
\* it leaves, what it put on the page, and how it ended ("returned", or the
\* way it ended the whole run).
Outcome(ss, rendered, ended) ==
    [ss |-> ss, rendered |-> rendered, ended |-> ended]

render_login_ui(ss, input) ==
    IF input.kind = "submit"
    THEN IF _verify_credentials(input.username, input.password)
         THEN Outcome(DictSet(DictSet(ss, "authenticated", TRUE),
                              "current_user", input.username),
                      {"login_form", "success"}, "rerun")
         ELSE Outcome(ss, {"login_form", "error"}, "returned")
    ELSE Outcome(ss, {"login_form"}, "returned")

\* What the feature radio returns: the option just clicked, else the
\* option it showed before.
Radio(ss, input) ==
    IF input.kind = "select"
    THEN input.feature
    ELSE DictGet(ss, "selected_feature", feature_names[1])

_render_sidebar(c, ss, input) ==
    LET selected == Radio(ss, input) IN
    IF c.builder = "core"
    THEN IF selected # DictGet(ss, "selected_feature", NoFeature)
         THEN Outcome(DictSet(ss, "selected_feature", selected),
                      {"sidebar", "menu"}, "rerun")
         ELSE IF input.kind = "logout"
              THEN IF c.auth
                   THEN \* AuthBlock has no attribute logout
                        Outcome(ss, {"sidebar", "menu", "logout_button"},
                                "exception")
                   ELSE Outcome(EmptyDict,
                                {"sidebar", "menu", "logout_button"}, "rerun")
              ELSE Outcome(ss, {"sidebar", "menu", "logout_button"},
                           "returned")
    ELSE IF input.kind = "logout"
         THEN Outcome(EmptyDict, {"sidebar", "menu", "logout_button"},
                      "rerun")
         ELSE Outcome(DictSet(ss, "selected_feature", selected),
                      {"sidebar", "menu", "logout_button"}, "returned")

\* Step 3 of build: load the selected (core: or the default) feature.
load_selected(c, o) ==
    LET stored == DictGet(o.ss, "selected_feature", NoFeature)
        selected_feature == IF stored = NoFeature /\ c.builder = "core"
                            THEN default_feature
                            ELSE stored
        ss == IF stored = NoFeature /\ c.builder = "core"
              THEN DictSet(o.ss, "selected_feature", selected_feature)
              ELSE o.ss
    IN  IF selected_feature # NoFeature
        THEN Outcome(ss, o.rendered \cup {"feature"}, "done")
        ELSE Outcome(ss, o.rendered, "done")

build(c, ss0, input) ==
    LET ss == IF c.builder = "core"
              THEN DictSet(ss0, "components", "components")
              ELSE ss0
    IN
    IF c.auth /\ ~check_login(ss)
    THEN LET l == render_login_ui(ss, input) IN
         IF l.ended = "returned"
         THEN Outcome(l.ss, l.rendered, "stop")
         ELSE l
    ELSE LET s == IF c.sidebar
                  THEN _render_sidebar(c, ss, input)
                  ELSE Outcome(ss, {}, "returned")
         IN  IF s.ended = "returned" THEN load_selected(c, s) ELSE s

Inputs ==
    {NoInput}
    \cup {[kind |-> "submit", username |-> u, password |-> p, feature |-> ""] :
             u \in Usernames, p \in Passwords}
    \cup {[kind |-> "select", username |-> "", password |-> "", feature |-> f] :
             f \in {feature_names[i] : i \in DOMAIN feature_names}}
    \cup {[kind |-> "logout", username |-> "", password |-> "", feature |-> ""]}

\* The events the page left by the last run can produce.
Possible(input) ==
    IF run.ended \in {"none", "rerun"}
    THEN input = NoInput
    ELSE CASE input.kind = "rerun"  -> TRUE
           [] input.kind = "submit" -> "login_form" \in run.rendered
           [] input.kind = "select" -> "menu" \in run.rendered
           [] input.kind = "logout" -> "logout_button" \in run.rendered

enginevars == <<providers, provider_status, now, genvars, consec, last_op,
                recovered, concvars>>

\* One run of the entry script.
Script(input) ==
    /\ Possible(input)
    /\ LET o == build(components, session_state, input) IN
       /\ session_state' = o.ss
       /\ run' = [input |-> input, rendered |-> o.rendered, ended |-> o.ended]
    /\ submitted' = IF input.kind = "submit"
                    THEN [username |-> input.username,
                          password |-> input.password]
                    ELSE submitted
    /\ UNCHANGED <<components, enginevars>>

\* The browser opens the page afresh: a new session.
NewSession ==
    /\ run.ended # "none"
    /\ session_state' = EmptyDict
    /\ run' = NoRun
    /\ submitted' = NoCredentials
    /\ UNCHANGED <<components, enginevars>>

\* The server is started with another entry script.
Deploy(c) ==
    /\ c # components
    /\ components' = c
    /\ session_state' = EmptyDict
    /\ run' = NoRun
    /\ submitted' = NoCredentials
    /\ UNCHANGED enginevars

NextApp ==
    \/ \E input \in Inputs : Script(input)
    \/ NewSession
    \/ \E c \in Components : Deploy(c)

\* No AI provider matters to the shell: the engine is left unconfigured.
InitApp == Init /\ providers = {}

SpecApp == InitApp /\ [][NextApp]_vars

\* ==================================================================== claims
\* Position of a provider in generate's priority order.
Pos(p) == CHOOSE i \in 1..Len(provider_order) : provider_order[i] = p

Earlier(a, b) == Pos(a) < Pos(b)

\* The zero state of a health record.
ZeroRecord == [failures |-> 0, last_failure |-> None]

\* ----------------------------------------------------------------------- C1
\* C1 (state part): when a generate call has ended in which an earlier provider
\* raised and a later provider returned a non-empty text, the result is a
\* success carrying that text and the later provider's name; and a provider is
\* skipped as circuit-open only for its own counter.
C1_Result ==
    /\ \A a, b \in AIProvider :
         (pc = "returned" /\ Earlier(a, b)
            /\ attempt[a] = "raised" /\ attempt[b] = "text")
         => /\ result.success
            /\ result.content = content
            /\ result.content # << >>
            /\ result.provider = b
            /\ provider_status[a].failures >= 1
            /\ provider_status[a].last_failure # None
    /\ \A b \in AIProvider :
         attempt[b] = "open" => provider_status[b].failures >= failure_threshold

\* C1 (step part): the step in which a called provider raises grows that
\* provider's failure counter by exactly one, stamps it with the current time,
\* leaves every other provider's record alone and moves on to the next
\* provider in order.
C1_RaiseStep ==
    \A a \in AIProvider :
      (attempt[a] = "calling" /\ attempt'[a] = "raised")
      => /\ provider_status'[a].failures = provider_status[a].failures + 1
         /\ provider_status'[a].last_failure = Some(now)
         /\ \A b \in AIProvider \ {a} : provider_status'[b] = provider_status[b]
         /\ pc' = "loop"
         /\ idx' = Pos(a) + 1

\* C1: first success wins after a failure.
C1_FirstSuccessAfterFailure == []C1_Result /\ [][C1_RaiseStep]_vars

C1_Witness ==
    /\ pc = "returned"
    /\ attempt["gemini"] = "raised"
    /\ attempt["deepseek"] = "text"
    /\ result.success
    /\ result.provider = "deepseek"
    /\ provider_status["gemini"].failures = 2

\* ----------------------------------------------------------------------- C2
\* C2: after failure_threshold (or more) consecutive record_failure(X) calls,
\* with no record_success and no timeout reset in between, is_available(X)
\* called before the cooldown has elapsed returns false: both when evaluated
\* in the state reached and as observed from the calls that were made.
C2_BreakerOpens ==
    /\ \A x \in AIProvider :
         (consec[x] >= failure_threshold /\ ~Expired(provider_status, x, now))
         => ~is_available(provider_status, x, now).ret
    /\ (last_op.op = "is_available" /\ last_op.provider \in AIProvider
          /\ last_op.ret)
       => consec[last_op.provider] < failure_threshold

C2_Witness ==
    /\ consec["gemini"] = failure_threshold
    /\ last_op = Op("is_available", "gemini", FALSE, failure_threshold, FALSE)

\* ----------------------------------------------------------------------- C3
\* C3: for every registered provider whose last_failure is older than timeout,
\* whatever its failure counter, the next is_available returns true and leaves
\* the record at failures = 0, last_failure absent.
C3_BreakerRecovers ==
    /\ \A x \in AIProvider :
         Expired(provider_status, x, now)
         => LET chk == is_available(provider_status, x, now)
            IN  chk.ret /\ chk.status[x] = ZeroRecord
    /\ (last_op.op = "is_available" /\ last_op.expired)
       => last_op.ret /\ provider_status[last_op.provider] = ZeroRecord

C3_Witness ==
    /\ last_op = Op("is_available", "gemini", TRUE, MaxFailures, TRUE)
    /\ provider_status["gemini"] = ZeroRecord

\* ----------------------------------------------------------------------- C4
\* C4: one record_success(X), after any number of failures, leaves X at
\* failures = 0 and last_failure absent, and is_available(X) is true right
\* after it.
C4_SuccessResets ==
    /\ \A x \in AIProvider :
         LET after == record_success(provider_status, x)
         IN  after[x] = ZeroRecord /\ is_available(after, x, now).ret
    /\ (last_op.op = "record_success" /\ last_op.provider \in AIProvider)
       => /\ provider_status[last_op.provider] = ZeroRecord
          /\ is_available(provider_status, last_op.provider, now).ret

C4_Witness ==
    /\ last_op.op = "record_success"
    /\ last_op.provider = "deepseek"
    /\ last_op.before = MaxFailures
    /\ ~last_op.expired

\* ----------------------------------------------------------------------- C5
\* Every provider of the priority order was unusable in this call: absent from
\* the registry, circuit open, or called and raised.
AllUnusable == \A p \in AIProvider : attempt[p] \in {"absent", "open", "raised"}

\* C5: when every provider is absent, circuit-open or raises, generate does not
\* raise: the loop runs to its end and the call returns success = false,
\* provider = "none", empty content and a non-empty error.
C5_TotalFailureIsAValue ==
    AllUnusable
    => \/ pc = "loop" /\ idx = Len(provider_order) + 1
       \/ /\ pc = "returned"
          /\ ~result.success
          /\ result.provider = "none"
          /\ result.content = << >>
          /\ result.error # ""

C5_Witness ==
    /\ pc = "returned"
    /\ attempt["gemini"] = "absent"
    /\ attempt["deepseek"] = "open"
    /\ attempt["grok"] = "raised"
    /\ result = FailureResponse

\* ----------------------------------------------------------------------- C6
\* C6: a provider that is not in the registry is never attempted: in every
\* state reached by any sequence of generate calls its routine has never been
\* invoked, no breaker operation was made for it (the call only marked it
\* absent) and its health record is the one of construction.
C6_AbsentNeverAttempted ==
    \A p \in AIProvider \ providers :
      /\ invoked[p] = 0
      /\ attempt[p] \in {"pending", "absent"}
      /\ provider_status[p] = ZeroRecord

C6_Witness ==
    /\ pc = "returned"
    /\ "gemini" \notin providers
    /\ attempt["gemini"] = "absent"
    /\ attempt["deepseek"] = "raised"
    /\ attempt["grok"] = "text"
    /\ invoked["grok"] = 2

\* ----------------------------------------------------------------------- C7
\* C7 (state part): an exception leaves generate only from the progress
\* callback, never from a provider's call routine; and once a provider
\* raised, the call did not end before the next provider in order was dealt
\* with.
C7_Contained ==
    /\ pc = "raised" => \E p \in AIProvider : attempt[p] = "callback_raised"
    /\ \A a, b \in AIProvider :
         (pc \in {"returned", "raised"} /\ attempt[a] = "raised"
            /\ Pos(b) = Pos(a) + 1)
         => attempt[b] # "pending"

\* C7 (step part): whatever a call routine does (text, empty text, exception),
\* the step that ends it stays inside generate: it returns the response or
\* goes on with the next provider in order.
C7_ReturnStep ==
    \A a \in AIProvider :
      (attempt[a] = "calling" /\ attempt'[a] # "calling")
      => \/ attempt'[a] = "text" /\ pc' = "returned" /\ result'.success
         \/ /\ attempt'[a] \in {"raised", "empty"}
            /\ pc' = "loop"
            /\ idx' = Pos(a) + 1

\* C7: generate never propagates a provider exception.
C7_NoProviderException == []C7_Contained /\ [][C7_ReturnStep]_vars

C7_Witness ==
    /\ pc = "returned"
    /\ attempt["gemini"] = "raised"
    /\ attempt["deepseek"] = "empty"
    /\ attempt["grok"] = "raised"
    /\ result = FailureResponse

\* ----------------------------------------------------------------------- C8
\* C8: whenever an attempted provider raises or returns an empty response, the
\* step that ends the attempt records a failure for it (counter + 1,
\* last_failure = now) and continues with the next provider in order.
C8_FailureStep ==
    \A a \in AIProvider :
      (attempt[a] = "calling" /\ attempt'[a] \in {"raised", "empty"})
      => /\ provider_status'[a].failures = provider_status[a].failures + 1
         /\ provider_status'[a].last_failure = Some(now)
         /\ pc' = "loop"
         /\ idx' = Pos(a) + 1

C8_FailedAttemptsCounted == [][C8_FailureStep]_vars

\* ----------------------------------------------------------------------- C9
\* C9 as stated: after failure_threshold generate calls in each of which X was
\* attempted and raised while a later provider succeeded, X's call routine is
\* invoked again only by a call that finds the cooldown elapsed (and so the
\* record reset): a further invocation never starts within timeout of X's
\* last failure.
C9_Original ==
    \A x \in AIProvider :
      (pc = "calling" /\ provider_order[idx] = x /\ track[x] # "void"
         /\ invoked[x] > failure_threshold)
      => \/ provider_status[x].last_failure = None
         \/ start_time - Val(provider_status[x].last_failure) > timeout

\* C9 as amended: after failure_threshold generate calls in each of which X
\* was attempted and raised while a later provider succeeded, none of them
\* checking X more than timeout after X's previous failure (no timeout reset
\* in between), X's circuit is open; until the cooldown elapses is_available(X)
\* is false, a further call skips X without invoking its routine and returns
\* the later provider's content, and X's routine has been invoked exactly
\* failure_threshold times.
C9_OpenNotCalled ==
    \A x \in AIProvider :
      /\ track[x] = "clean" => invoked[x] <= failure_threshold
      /\ (track[x] = "clean" /\ invoked[x] = failure_threshold
            /\ attempt[x] # "calling" /\ ~Expired(provider_status, x, now))
         => /\ provider_status[x].failures = failure_threshold
            /\ ~is_available(provider_status, x, now).ret
      /\ (track[x] = "clean" /\ attempt[x] = "open")
         => invoked[x] = failure_threshold
      /\ \A y \in AIProvider :
           (pc = "returned" /\ attempt[x] = "open" /\ Earlier(x, y)
              /\ attempt[y] = "text")
           => /\ result.success
              /\ result.provider = y
              /\ result.content = content
              /\ result.content # << >>

C9_Witness ==
    /\ pc = "returned"
    /\ track["gemini"] = "clean"
    /\ invoked["gemini"] = failure_threshold
    /\ attempt["gemini"] = "open"
    /\ attempt["deepseek"] = "text"
    /\ invoked["deepseek"] = failure_threshold + 1
    /\ result.provider = "deepseek"

\* ----------------------------------------------------------------------- C10
\* C10 (state part): when a generate call has ended on a provider's non-empty
\* text, record_success was made for that provider, the result is a success
\* with that text and that provider's name, and no provider later in the
\* order was checked or called.
C10_Result ==
    \A b \in AIProvider :
      attempt[b] = "text"
      => /\ pc = "returned"
         /\ result.success
         /\ result.content = content
         /\ result.content # << >>
         /\ result.provider = b
         /\ provider_status[b] = ZeroRecord
         /\ \A c \in AIProvider : Earlier(b, c) => attempt[c] = "pending"

\* C10 (step part): a step of a running call touches the health record and the
\* invocation count of the loop's current provider only, so the providers
\* after the successful one keep their records.
C10_Frame ==
    \A c \in AIProvider :
      (provider_status'[c] # provider_status[c] \/ invoked'[c] # invoked[c])
      => /\ pc \in {"loop", "calling"}
         /\ c = provider_order[idx]

\* C10: first success ends the call.
C10_FirstSuccessEndsCall == []C10_Result /\ [][C10_Frame]_vars

C10_Witness ==
    /\ pc = "returned"
    /\ attempt["gemini"] = "text"
    /\ attempt["deepseek"] = "pending"
    /\ attempt["grok"] = "pending"
    /\ provider_status["deepseek"].failures = 2
    /\ result.provider = "gemini"

\* ---------------------------------------------------------------------- C11
\* C11: the call routines one generate call invokes are invoked in the order
\* gemini, deepseek, grok, each at most once: the sequence of the invocations
\* is a subsequence of that order, whatever the health records hold and
\* however the earlier calls ended.
C11_AttemptsInFixedOrder ==
    LET order   == <<"gemini", "deepseek", "grok">>
        rank(p) == CHOOSE i \in 1..Len(order) : order[i] = p
    IN  /\ \A i \in 1..Len(call_log) : call_log[i] \in AIProvider
        /\ \A i, j \in 1..Len(call_log) :
               i < j => rank(call_log[i]) < rank(call_log[j])

\* A later call, made while gemini's circuit is open, invoked deepseek and then
\* grok.
C11_Witness ==
    /\ pc = "returned"
    /\ attempt["gemini"] = "open"
    /\ provider_status["deepseek"].failures = 2
    /\ call_log = <<"deepseek", "grok">>

\* ---------------------------------------------------------------------- C12
\* The words of an error text of generate: the one text a total failure
\* carries, and none for the empty error of the other responses.
ErrorText(e) ==
    IF e = AllFailedError
    THEN <<"Tat", "ca", "AI", "providers", "tam", "thoi", "khong", "kha",
           "dung", "Thu", "lai", "sau">>
    ELSE << >>

\* The providers an error text names, in the order it names them.
ProvidersNamed(e) == SelectSeq(ErrorText(e), LAMBDA w : w \in AIProvider)

\* C12: the error of a total-failure result is aggregated per provider: it
\* has an entry for each provider of the order, giving the reason the provider
\* was unusable (not configured, circuit open, or the error it raised), the
\* entries standing in the order of the attempts gemini, deepseek, grok.
C12_ErrorAggregated ==
    (pc = "returned" /\ ~result.success /\ result.provider = "none")
        => ProvidersNamed(result.error) = provider_order

\* ---------------------------------------------------------------------- C13
\* What the loop head does for a registered provider in a call without a
\* callback: the is_available check, then either the skip or the entry into
\* the call routine.
C13_Step ==
    (pc = "loop" /\ idx <= Len(provider_order)
                 /\ provider_order[idx] \in providers)
        => LET provider == provider_order[idx]
               chk == is_available(provider_status, provider, now)
           IN  /\ provider_status' = chk.status
               /\ IF chk.ret
                  THEN /\ pc' = "calling"
                       /\ idx' = idx
                       /\ call_log' = Append(call_log, provider)
                  ELSE /\ pc' = "loop"
                       /\ idx' = idx + 1
                       /\ call_log' = call_log

\* C13: the progress callback is advisory only: whatever the callback does,
\* raising included, the call takes the steps of the same call made without a
\* callback, so it returns the same result and leaves the same health records;
\* in particular no call ends by an exception.
C13_CallbackAdvisory == [](pc # "raised") /\ [][C13_Step]_vars

\* ---------------------------------------------------------------------- C14
\* The loop head of generate stands at provider X, registered, and X's circuit
\* is open: the step leaves every health record as it was, invokes no call
\* routine and moves on to the next provider.
C14_SkipStep ==
    \A X \in AIProvider :
        (/\ pc = "loop" /\ idx <= Len(provider_order)
         /\ provider_order[idx] = X /\ X \in providers
         /\ ~is_available(provider_status, X, now).ret)
            => /\ provider_status' = provider_status
               /\ invoked' = invoked
               /\ call_log' = call_log
               /\ attempt' = [attempt EXCEPT ![X] = "open"]
               /\ pc' = "loop" /\ idx' = idx + 1

\* C14: a provider skipped because its circuit is open is not counted again:
\* when is_available(X) returns false inside generate, X's call routine is not
\* invoked and X's failures and last_failure stay as they are, so a skip never
\* extends X's cooldown.
C14_OpenSkipNotCounted ==
    /\ [](\A X \in AIProvider :
            attempt[X] = "open"
                => /\ \A i \in 1..Len(call_log) : call_log[i] # X
                   /\ provider_status[X].failures >= failure_threshold
                   /\ provider_status[X].last_failure # None
                   /\ Val(provider_status[X].last_failure) <= now)
    /\ [][C14_SkipStep]_vars

\* gemini, whose third failure was at instant 1, has just been skipped at
\* instant 2: its record still holds the failure time 1.
C14_Witness ==
    /\ pc = "loop" /\ idx = 2
    /\ attempt["gemini"] = "open"
    /\ now = 2
    /\ provider_status["gemini"] = [failures |-> 3, last_failure |-> Some(1)]

\* ---------------------------------------------------------------------- C15
\* Identities without a health record: a name outside the enum, the empty
\* name, and a registered name in another case.
UnknownIdentities == {"unknown", "", "Gemini"}

\* C15: the breaker fails open for unknown providers: is_available(p) returns
\* true, and changes nothing, for every identity p without a health record,
\* whatever the tracked records hold.
C15_UnknownIsAvailable ==
    /\ \A p \in UnknownIdentities \ DOMAIN provider_status :
          is_available(provider_status, p, now) =
              [ret |-> TRUE, status |-> provider_status]
    /\ (last_op.op = "is_available" /\ last_op.provider \notin DOMAIN provider_status)
          => last_op.ret

\* is_available("unknown") has just answered True while gemini's circuit is
\* open and deepseek has failures on record.
C15_Witness ==
    /\ last_op = Op("is_available", "unknown", TRUE, 0, FALSE)
    /\ provider_status["gemini"].failures >= failure_threshold
    /\ provider_status["deepseek"].failures > 0
    /\ ~is_available(provider_status, "gemini", now).ret

\* ---------------------------------------------------------------------- C16
\* A breaker operation on an identity without a health record leaves every
\* record as it was, and no step changes the set of the tracked providers.
C16_Step ==
    /\ DOMAIN provider_status' = DOMAIN provider_status
    /\ (last_op' # last_op /\ last_op'.provider \notin DOMAIN provider_status)
          => provider_status' = provider_status

\* C16: record_failure(p) and record_success(p) for an identity p without a
\* health record change nothing, and no operation adds or removes a health
\* record: the tracked providers are those of the construction, for ever.
C16_TrackedSetFixed ==
    /\ [](/\ DOMAIN provider_status = AIProvider
          /\ \A p \in UnknownIdentities :
                /\ record_failure(provider_status, p, now) = provider_status
                /\ record_success(provider_status, p) = provider_status
                /\ is_available(provider_status, p, now).status = provider_status)
    /\ [][C16_Step]_vars

\* record_failure("unknown") has just run on a breaker whose tracked records
\* hold failures: gemini's and deepseek's records are what they were.
C16_Witness ==
    /\ last_op = Op("record_failure", "unknown", FALSE, 0, FALSE)
    /\ provider_status["gemini"] = [failures |-> 2, last_failure |-> Some(1)]
    /\ provider_status["deepseek"] = [failures |-> 1, last_failure |-> Some(2)]
    /\ provider_status["grok"] = ZeroRecord

\* ---------------------------------------------------------------------- C17
\* C17: the counter and the timestamp are coupled: in every state reached by a
\* sequence of is_available, record_failure and record_success calls, each
\* tracked provider has failures = 0 exactly when its last_failure is absent.
C17_CounterAndTimestampCoupled ==
    \A p \in DOMAIN provider_status :
        provider_status[p].failures = 0
            <=> provider_status[p].last_failure = None

\* record_success has just cleared gemini's record, which held three failures,
\* while deepseek's record holds two failures and the time of the last one.
C17_Witness ==
    /\ last_op.op = "record_success"
    /\ last_op.provider = "gemini"
    /\ last_op.before = 3
    /\ provider_status["gemini"] = ZeroRecord
    /\ provider_status["deepseek"] = [failures |-> 2, last_failure |-> Some(2)]

\* ---------------------------------------------------------------------- C18
\* C18: the breaker operations are critical sections: with several generate
\* calls running at once on one breaker every reachable state is the state of
\* some serial order of their operations; in particular k record_failure(X)
\* calls, with no reset of X's record among them, raise X's counter by exactly
\* k (no update is lost).
C18_NoLostUpdate ==
    rf_calls >= 0 => provider_status[ConcProvider].failures = rf_calls

\* ---------------------------------------------------------------------- C19
\* The circuit of provider X is open: its counter has reached the threshold.
Open(ps, X) == ps[X].failures >= failure_threshold

\* A step that takes X out of the open state is a record_success(X) or an
\* is_available(X) made after the timeout; the passing of time alone changes
\* no record.
C19_Step ==
    /\ now' # now => provider_status' = provider_status
    /\ \A X \in AIProvider :
          (Open(provider_status, X) /\ ~Open(provider_status', X))
              => /\ provider_status'[X] = ZeroRecord
                 /\ \/ last_op' = Op("record_success", X, FALSE,
                                     provider_status[X].failures,
                                     Expired(provider_status, X, now))
                    \/ /\ Expired(provider_status, X, now)
                       /\ last_op' = Op("is_available", X, TRUE,
                                        provider_status[X].failures, TRUE)

\* C19: a provider whose counter has reached failure_threshold stays
\* unavailable at every is_available check made while the time since its
\* last_failure does not exceed the timeout; it becomes available again only
\* by the reset an is_available check makes after the timeout or by a
\* record_success: no timer and no other transition leads out of the open
\* state.
C19_OpenUntilTimeoutOrSuccess ==
    /\ [](/\ \A X \in AIProvider :
                (/\ Open(provider_status, X)
                 /\ provider_status[X].last_failure # None
                 /\ now - Val(provider_status[X].last_failure) <= timeout)
                    => is_available(provider_status, X, now) =
                           [ret |-> FALSE, status |-> provider_status]
          /\ (/\ last_op.op = "is_available"
              /\ last_op.before >= failure_threshold
              /\ ~last_op.expired) => ~last_op.ret)
    /\ [][C19_Step]_vars

\* gemini's third failure was at instant 1; an is_available check at instant
\* 2, the timeout not yet exceeded, has just answered False and left the
\* record as it was.
C19_Witness ==
    /\ now = 1 + timeout
    /\ last_op = Op("is_available", "gemini", FALSE, 3, FALSE)
    /\ provider_status["gemini"] = [failures |-> 3, last_failure |-> Some(1)]

\* ---------------------------------------------------------------------- C20
\* The step by which the timeout closes X's open circuit leaves X's record at
\* zero and answers True.
C20_RecoveryStep ==
    \A X \in AIProvider :
        (X \notin recovered /\ X \in recovered')
            => /\ provider_status'[X] = ZeroRecord
               /\ last_op'.op = "is_available" /\ last_op'.provider = X
               /\ last_op'.ret

\* C20: there is no half-open state: after X's open circuit has recovered
\* through the timeout, X's counter restarts at 0 and counts the new failures
\* only, so (failure_threshold being above 1) one failure of the first attempt
\* after the cooldown leaves X available, and the circuit opens again only
\* after failure_threshold new failures.
C20_NoHalfOpen ==
    /\ [](\A X \in recovered :
            /\ provider_status[X].failures = consec[X]
            /\ ~Expired(provider_status, X, now)
                  => (is_available(provider_status, X, now).ret
                         <=> consec[X] < failure_threshold)
            /\ (/\ last_op.op = "is_available" /\ last_op.provider = X
                /\ ~last_op.expired)
                  => (last_op.ret <=> consec[X] < failure_threshold))
    /\ [][C20_RecoveryStep]_vars

\* gemini's open circuit was closed by the timeout, gemini then failed once,
\* and the is_available check made after that failure has answered True.
C20_Witness ==
    /\ "gemini" \in recovered
    /\ consec["gemini"] = 1
    /\ provider_status["gemini"].failures = 1
    /\ last_op = Op("is_available", "gemini", TRUE, 1, FALSE)

\* ---------------------------------------------------------------------- C21
\* C21: every generate invocation terminates: each provider call is bounded
\* by a timeout, a call that times out counts as a failure of its provider
\* and the next provider is tried, so a call that has been entered returns,
\* also when a provider's network call hangs.
C21_GenerateTerminates ==
    [](pc \in {"loop", "calling", "hung"} => <>(pc \in {"returned", "raised"}))

\* ---------------------------------------------------------------------- C22
\* An is_available(X) step that changes X's record is made more than timeout
\* after X's last failure.
C22_ResetStep ==
    \A X \in AIProvider :
        (/\ last_op' # last_op
         /\ last_op'.op = "is_available" /\ last_op'.provider = X
         /\ provider_status' # provider_status)
            => /\ provider_status[X].last_failure # None
               /\ now - Val(provider_status[X].last_failure) > timeout
               /\ last_op'.expired

\* C22: the timeout comparison is strict: is_available resets a record only
\* when the time since last_failure exceeds the timeout; when that time equals
\* the timeout exactly, is_available of a provider whose counter has reached
\* failure_threshold returns false and leaves the record as it is.
C22_StrictTimeout ==
    /\ [](\A X \in AIProvider :
            (/\ provider_status[X].last_failure # None
             /\ now - Val(provider_status[X].last_failure) = timeout)
                => /\ is_available(provider_status, X, now).status = provider_status
                   /\ is_available(provider_status, X, now).ret
                          <=> provider_status[X].failures < failure_threshold)
    /\ []((/\ last_op.op = "is_available"
           /\ last_op.provider \in AIProvider
           /\ last_op.before >= failure_threshold
           /\ ~last_op.expired) => ~last_op.ret)
    /\ [][C22_ResetStep]_vars

\* deepseek's third failure was at instant 2; the is_available check made
\* exactly timeout later has answered False and left the record as it was.
C22_Witness ==
    /\ now = 2 + timeout
    /\ last_op = Op("is_available", "deepseek", FALSE, 3, FALSE)
    /\ provider_status["deepseek"] = [failures |-> 3, last_failure |-> Some(2)]

\* ---------------------------------------------------------------------- C23
\* The callback was called once for each call routine invoked so far: the
\* i-th call of the callback names the i-th provider invoked and was made
\* before that provider's routine was entered.
C23_OncePerAttempt ==
    /\ Len(cb_log) = Len(call_log)
    /\ \A i \in 1..Len(cb_log) : cb_log[i] = Progress(call_log[i], i - 1)

\* C23: with a progress callback supplied, generate calls it exactly once for
\* each provider it attempts, before that provider's call routine is invoked
\* and with a status text naming the provider, and never for a provider it
\* skips as not configured or circuit-open; when every provider is skipped the
\* callback is not called at all.
C23_CallbackPerAttempt ==
    /\ (pc \in {"loop", "calling"} /\ progress_callback = "ok")
          => C23_OncePerAttempt
    /\ pc = "returned" => (C23_OncePerAttempt \/ cb_log = << >>)
    /\ pc = "raised"
          => /\ call_log = << >>
             /\ \E p \in AIProvider : /\ attempt[p] = "callback_raised"
                                      /\ cb_log = <<Progress(p, 0)>>
    /\ \A p \in AIProvider :
          attempt[p] \in {"absent", "open"}
              => \A i \in 1..Len(cb_log) : cb_log[i].msg[2] # upper(p)
    /\ (\A p \in AIProvider : attempt[p] \in {"absent", "open"})
          => cb_log = << >>

\* A call with a callback skipped gemini (circuit open), attempted deepseek,
\* which raised, and grok, which answered: the callback was called for
\* deepseek and then for grok.
C23_Witness ==
    /\ pc = "returned"
    /\ attempt = [gemini |-> "open", deepseek |-> "raised", grok |-> "text"]
    /\ cb_log = <<Progress("deepseek", 0), Progress("grok", 1)>>
    /\ cb_log[1].msg = <<"Calling", "DEEPSEEK", "...">>

C25_Step ==
    \A p \in AIProvider :
        /\ provider_status'[p].failures <= provider_status[p].failures + 1
        /\ provider_status'[p].failures > provider_status[p].failures
              => /\ attempt[p] = "calling" /\ attempt'[p] = "raised"
                 /\ provider_status[p].failures < failure_threshold
                 /\ \A i, j \in 1..Len(call_log) :
                       (call_log[i] = p /\ call_log[j] = p) => i = j

\* C25: with the breaker driven by sequential generate calls only, every
\* provider's failure counter stays within 0..failure_threshold: a provider is
\* attempted only while its counter is below the threshold (or was just
\* reset), and one generate call records at most one failure per provider.
C25_CounterBounded ==
    /\ [](\A p \in AIProvider :
            /\ provider_status[p].failures \in 0..failure_threshold
            /\ attempt[p] = "calling"
                  => provider_status[p].failures < failure_threshold)
    /\ [][C25_Step]_vars

\* gemini has failed in three calls and its counter stands at the threshold;
\* a fourth call has skipped it.
C25_Witness ==
    /\ pc = "returned"
    /\ invoked["gemini"] = 3
    /\ provider_status["gemini"].failures = failure_threshold
    /\ attempt["gemini"] = "open"
    /\ attempt["deepseek"] = "text"

\* ---------------------------------------------------------------------- C26
\* C26: failures spaced further apart than the cooldown never open the
\* circuit: is_available resets the counter whenever more than timeout has
\* passed since last_failure, also below the threshold, so a provider whose
\* failed attempts through generate are each made more than timeout after its
\* previous failure has a counter of at most 1 at all times and is never
\* skipped as circuit-open.
C26_SpacedFailuresNeverOpen ==
    /\ provider_status[SpacedProvider].failures <= 1
    /\ attempt[SpacedProvider] # "open"
    /\ pc = "loop" /\ idx <= Len(provider_order)
                   /\ provider_order[idx] = SpacedProvider
          => is_available(provider_status, SpacedProvider, now).ret

\* deepseek failed, was attempted again more than timeout later, its record
\* being reset by the check, and has failed again: its counter is 1.
C26_Witness ==
    /\ pc = "loop"
    /\ track["deepseek"] = "reset"
    /\ invoked["deepseek"] >= 2
    /\ attempt["deepseek"] = "raised"
    /\ provider_status["deepseek"] = [failures |-> 1, last_failure |-> Some(now)]
    /\ now > 1 + timeout

\* ---------------------------------------------------------------------- C27
\* A breaker operation on X leaves the record of every other provider as it
\* was.
C27_Step ==
    last_op' # last_op
        => \A Y \in AIProvider \ {last_op'.provider} :
               provider_status'[Y] = provider_status[Y]

\* C27: the health records are independent: is_available(X), record_failure(X)
\* and record_success(X) never change the counter or the last_failure of a
\* provider Y other than X, so the failures of one provider never make
\* another provider unavailable.
C27_RecordsIndependent ==
    /\ [](\A X \in Identities : \A Y \in AIProvider \ {X} :
            /\ is_available(provider_status, X, now).status[Y] = provider_status[Y]
            /\ record_failure(provider_status, X, now)[Y] = provider_status[Y]
            /\ record_success(provider_status, X)[Y] = provider_status[Y]
            /\ is_available(record_failure(provider_status, X, now), Y, now).ret
                  = is_available(provider_status, Y, now).ret)
    /\ [][C27_Step]_vars

\* The third failure of gemini has just been recorded, opening its circuit:
\* deepseek's record still holds its one failure of instant 1 and deepseek is
\* available, as is grok.
C27_Witness ==
    /\ last_op.op = "record_failure" /\ last_op.provider = "gemini"
    /\ last_op.before = failure_threshold - 1
    /\ ~is_available(provider_status, "gemini", now).ret
    /\ provider_status["deepseek"] = [failures |-> 1, last_failure |-> Some(1)]
    /\ now = 1 + timeout
    /\ is_available(provider_status, "deepseek", now).ret
    /\ is_available(provider_status, "grok", now).ret

\* ---------------------------------------------------------------------- C28
\* An is_available(X) step writes nothing when X's cooldown has not run out,
\* and otherwise sets X's record, and only X's, to the zero state.
C28_Step ==
    (last_op' # last_op /\ last_op'.op = "is_available")
        => IF Expired(provider_status, last_op'.provider, now)
           THEN provider_status' =
                    [provider_status EXCEPT ![last_op'.provider] = ZeroRecord]
           ELSE provider_status' = provider_status

\* C28: is_available is read-only unless the cooldown has expired: for a
\* registered provider whose last_failure is absent or not older than the
\* timeout it changes no health record, and repeated at the same instant it
\* returns the same value; it changes state only by resetting that one
\* provider's record to (0, absent) when the timeout has been exceeded.
C28_ReadOnlyUnlessExpired ==
    /\ [](\A X \in AIProvider :
            LET chk   == is_available(provider_status, X, now)
                again == is_available(chk.status, X, now)
            IN  /\ ~Expired(provider_status, X, now)
                      => chk.status = provider_status
                /\ Expired(provider_status, X, now)
                      => chk.status = [provider_status EXCEPT ![X] = ZeroRecord]
                /\ again.ret = chk.ret
                /\ again.status = chk.status)
    /\ [][C28_Step]_vars

\* is_available(deepseek) has just answered True for a record holding two
\* failures, the last of them at this instant, and the record is as it was.
C28_Witness ==
    /\ last_op = Op("is_available", "deepseek", TRUE, 2, FALSE)
    /\ provider_status["deepseek"] = [failures |-> 2, last_failure |-> Some(now)]
    /\ provider_status["gemini"].failures = 1

\* ---------------------------------------------------------------------- C29
\* The authenticated flag of a session state, read as the source stores it.
Authenticated(ss) == "authenticated" \in DOMAIN ss /\ ss["authenticated"] = TRUE

\* The step is a run of the entry script.
IsRun == run'.ended # "none" /\ run' # run

\* A run of an application with an auth block puts the sidebar or a feature
\* on the page only if the flag was true when the run began; any other run
\* puts the login form on the page and nothing of the application, and ends
\* at st.stop() or at the st.rerun() of a successful login.
C29_WallStep ==
    (IsRun /\ components.auth) =>
        IF Authenticated(session_state)
        THEN "login_form" \notin run'.rendered
        ELSE /\ "login_form" \in run'.rendered
             /\ run'.rendered \cap {"sidebar", "menu", "logout_button",
                                    "feature"} = {}
             /\ run'.ended \in {"stop", "rerun"}
             /\ (Authenticated(session_state') =>
                    /\ run'.input.kind = "submit"
                    /\ run'.ended = "rerun")

\* C29: with an auth block configured, build renders the sidebar and loads
\* a feature only in a run in which the session's authenticated flag is
\* true; the flag is true only after the submitted username is in the users
\* table and the digest of the submitted password is the stored one; in
\* every other run build stops after rendering the login form.
C29_LoginWall ==
    /\ [](Authenticated(session_state) =>
             /\ submitted.username \in DOMAIN users
             /\ sha256(submitted.password) = users[submitted.username]
             /\ session_state["current_user"] = submitted.username)
    /\ [][C29_WallStep]_vars

\* A logged-in run of the application of src/app.py: sidebar and feature on
\* the page, after a login of bob.
C29_Witness ==
    /\ components = AppPy
    /\ Authenticated(session_state)
    /\ submitted.username = "bob"
    /\ {"sidebar", "feature"} \subseteq run.rendered
    /\ run.ended = "done"


\* ---------------------------------------------------------------------- C30
\* C30: when the sidebar logout button is pressed in an application built
\* with an auth block, the run leaves a session state for which check_login
\* is false, and the run after it shows the login form.
C30_LogoutEndsSession ==
    /\ [][(IsRun /\ components.auth /\ run'.input.kind = "logout") =>
             ~Authenticated(session_state')]_vars
    /\ [][(IsRun /\ components.auth /\ run.input.kind = "logout") =>
             "login_form" \in run'.rendered]_vars

====
